---- MODULE Spec2Model ----
(***************************************************************************)
(* The edges splitter of the quarries road-network program.                *)
(*                                                                         *)
(* EdgesSplitter.calculate() loads the distances from every vertex to      *)
(* every quarry, orders the input edges by their distance to the nearest   *)
(* quarry and runs _construct_edge on each of them; _construct_edge either *)
(* assigns the edge to a quarry, or splits it (at the watershed between    *)
(* two quarries, or where the capacity of the quarry runs out) and         *)
(* recurses on the parts.                                                  *)
(*                                                                         *)
(* Numbers.  The program computes with floats.  The model computes with    *)
(* exact rationals: every length, distance and volume is stored as an      *)
(* integer numerator over the common denominator `scale`.  The only        *)
(* operation that can leave the grid is the halving in the watershed       *)
(* length; the step that needs it doubles `scale` and every stored         *)
(* numerator first (factor k in ConstructEdge).  np.isclose on values of   *)
(* this grid is equality: two different values used here differ by far     *)
(* more than the tolerance 1e-8 + 1e-5 * |b|.                              *)
(*                                                                         *)
(* Recursion.  _construct_edge is recursive and depth-first; `stack` holds *)
(* the linears whose _construct_edge call is still to be made, the next    *)
(* call first.  One ConstructEdge step is one invocation of the function   *)
(* body up to its recursive calls.                                         *)
(***************************************************************************)
EXTENDS Integers, Sequences, FiniteSets, TLC

\* ---------------------------------------------------------------- bounds
\* Input edge lengths are 1..MaxLen.
MaxLen == 2
\* Input capacities are road_coeff * (0..MaxCap), or the ample AmpleCap.
MaxCap == 2
AmpleCap == 100
\* Direct calls of Network.split_edge: on lines of length up to MaxLine, a
\* call is made while fewer than MaxSplits vertices have been created.
MaxLine == 3
MaxSplits == 2

\* Python's None (no quarry found; second vertex of the quarry's own path).
None == -1
\* A key that is missing from a dictionary.
NoEntry == -2

VARIABLES
    vertices,                 \* road_network.graph nodes
    quarries,                 \* self.quarries
    quarry_order,             \* iteration order of the quarry-keyed dicts
    linears,                  \* live edges (road_network.linears)
    geom_length,              \* linear.geom.length of every linear created
    input_linears,            \* the incidence list, in insertion order
    initial_capacities,       \* quarry.props["capacity"] as given
    quarries_capacities,      \* self.quarries_capacities
    road_coeff,               \* road_height * road_width
    distances_to_quarries,    \* self.distances_to_quarries
    second_vertex_in_path,    \* self.second_vertex_in_path
    edge_attached_quarry,     \* self.edge_attached_quarry
    available_vertex_id,      \* id generator of split-created vertices
    queue,                    \* edges still to be traversed by calculate()
    stack,                    \* pending _construct_edge calls
    pc,                       \* position of calculate()
    error,                    \* the exception that ended calculate()
    last,                     \* the locals of the last _construct_edge call
    scale,                    \* common denominator of all stored numbers
    weight,                   \* Network.graph edge attribute "weight"
    edge_to_line_mapping,     \* Network.edge_to_line_mapping: where each line runs
    original_edge,            \* Network.original_edge
    first_run                 \* result of calculate() on the input as first stored

vars == <<vertices, quarries, quarry_order, linears, geom_length, input_linears,
          initial_capacities, quarries_capacities, road_coeff,
          distances_to_quarries, second_vertex_in_path, edge_attached_quarry,
          available_vertex_id, queue, stack, pc, error, last, scale,
          weight, edge_to_line_mapping, original_edge, first_run>>

\* The fields only Network.split_edge maintains: EdgesSplitter._split_edge
\* goes through delete_linear and add_linear and leaves them alone.
network_fields == <<weight, edge_to_line_mapping, original_edge>>

\* ---------------------------------------------------------------- helpers
SetMin(S) == CHOOSE x \in S : \A y \in S : x <= y

SetMax(S) == CHOOSE x \in S : \A y \in S : x >= y

RECURSIVE SumOver(_, _)
SumOver(f, S) ==
    IF S = {} THEN 0
    ELSE LET x == CHOOSE y \in S : TRUE IN f[x] + SumOver(f, S \ {x})

\* np.isclose on the model's grid.
IsClose(a, b) == a = b

\* A Linear: an edge object with its first and last point facility.
Linear(f, l) == [first |-> f, last |-> l]

\* ---------------------------------------------------------------- inputs
\* Input networks: number of vertices (ids 0..n-1, listed ascending), the
\* incidence list as (first, last) pairs in insertion order, and the quarries.
InputNetworks ==
    { [n |-> 2, edges |-> << <<0, 1>> >>, quarries |-> {0}],
      [n |-> 2, edges |-> << <<1, 0>> >>, quarries |-> {0}],
      [n |-> 2, edges |-> << <<0, 1>> >>, quarries |-> {0, 1}],
      [n |-> 3, edges |-> << <<0, 1>>, <<1, 2>> >>, quarries |-> {0}],
      [n |-> 3, edges |-> << <<0, 1>>, <<1, 2>> >>, quarries |-> {0, 2}],
      [n |-> 3, edges |-> << <<0, 1>>, <<1, 2>> >>, quarries |-> {0, 1}],
      [n |-> 3, edges |-> << <<0, 2>>, <<0, 1>> >>, quarries |-> {0}],
      [n |-> 3, edges |-> << <<1, 0>>, <<2, 1>> >>, quarries |-> {0}],
      [n |-> 3, edges |-> << <<1, 0>>, <<2, 1>> >>, quarries |-> {0, 2}],
      [n |-> 3, edges |-> << <<0, 1>> >>, quarries |-> {0}],
      [n |-> 3, edges |-> << <<0, 1>> >>, quarries |-> {0, 2}],
      [n |-> 3, edges |-> << <<0, 1>>, <<1, 2>>, <<0, 2>> >>, quarries |-> {0}],
      [n |-> 3, edges |-> << <<0, 1>>, <<1, 2>>, <<2, 0>> >>, quarries |-> {0, 1}],
      [n |-> 4, edges |-> << <<0, 1>>, <<0, 3>>, <<2, 3>>, <<1, 3>> >>, quarries |-> {0, 2}] }

Capacities(c) == {c * j : j \in 0..MaxCap} \cup {c * AmpleCap}

RoadCoeffs == {1, 2}

\* All orders in which a dict keyed by the quarries Q may iterate.
Orders(Q) ==
    {s \in [1..Cardinality(Q) -> Q] : \A i, j \in 1..Cardinality(Q) : i # j => s[i] # s[j]}

\* utils.edge_key: the key of an edge, whatever the order of its vertices.
EdgeKey(u, v) == {u, v}

\* No first run of calculate() has been recorded.
NoRun == [taken |-> FALSE, scale |-> 1, parts |-> << >>, capacities |-> << >>, cost |-> 0]

NoLast ==
    [kind |-> "none", linear |-> Linear(None, None), u |-> None, v |-> None,
     qu |-> None, qv |-> None, own_qv |-> None, inverted |-> FALSE,
     single |-> FALSE, length |-> 0, du |-> 0, dv |-> 0, capacity |-> 0,
     s |-> 0, w |-> None, near |-> Linear(None, None),
     far |-> Linear(None, None)]

Init ==
    \E net \in InputNetworks :
    \E lens \in [1..Len(net.edges) -> 1..MaxLen] :
    \E Q \in {net.quarries} :
    \E c \in RoadCoeffs :
        /\ vertices = 0..(net.n - 1)
        /\ quarries = Q
        /\ quarry_order \in Orders(Q)
        /\ input_linears = [i \in 1..Len(net.edges) |-> Linear(net.edges[i][1], net.edges[i][2])]
        /\ linears = {Linear(net.edges[i][1], net.edges[i][2]) : i \in 1..Len(net.edges)}
        /\ geom_length =
               [e \in {Linear(net.edges[i][1], net.edges[i][2]) : i \in 1..Len(net.edges)} |->
                   lens[CHOOSE i \in 1..Len(net.edges) : Linear(net.edges[i][1], net.edges[i][2]) = e]]
        /\ road_coeff = c
        /\ initial_capacities \in [Q -> Capacities(c)]
        /\ quarries_capacities = initial_capacities
        /\ distances_to_quarries = [v \in 0..(net.n - 1) |-> [q \in Q |-> NoEntry]]
        /\ second_vertex_in_path = [v \in 0..(net.n - 1) |-> [q \in Q |-> NoEntry]]
        /\ edge_attached_quarry = [e \in {Linear(net.edges[i][1], net.edges[i][2]) : i \in 1..Len(net.edges)} |-> None]
        /\ available_vertex_id = net.n - 1
        /\ queue = << >>
        /\ stack = << >>
        /\ pc = "compute_distances"
        /\ error = "none"
        /\ last = NoLast
        /\ scale = 1
        /\ weight = geom_length
        /\ edge_to_line_mapping =
               [e \in {Linear(net.edges[i][1], net.edges[i][2]) : i \in 1..Len(net.edges)} |->
                   [from |-> e.first, to |-> e.last]]
        /\ original_edge =
               [e \in {Linear(net.edges[i][1], net.edges[i][2]) : i \in 1..Len(net.edges)} |->
                   EdgeKey(e.first, e.last)]
        /\ first_run = NoRun

\* ---------------------------------------------------------------- graph
\* The linear joining x and y in the set L of linears.
LinearBetween(L, x, y) ==
    CHOOSE e \in L : (e.first = x /\ e.last = y) \/ (e.first = y /\ e.last = x)

Adjacent(L, x, y) ==
    \E e \in L : (e.first = x /\ e.last = y) \/ (e.first = y /\ e.last = x)

Neighbours(L, x) == {y \in vertices : Adjacent(L, x, y)}

\* graph edge weight: the length of the edge's line.
Weight(L, x, y) == geom_length[LinearBetween(L, x, y)]

\* The length of the shortest path from quarry to x over at most n edges;
\* NoEntry when there is none.
RECURSIVE DistanceWithin(_, _, _)
DistanceWithin(quarry, x, n) ==
    IF n = 0 THEN (IF x = quarry THEN 0 ELSE NoEntry)
    ELSE LET through ==
                 {<<y, d>> \in {<<z, DistanceWithin(quarry, z, n - 1)>> :
                                  z \in Neighbours(linears, x) \cup {x}} : d # NoEntry}
             cands == {IF yd[1] = x THEN yd[2] ELSE yd[2] + Weight(linears, yd[1], x) :
                          yd \in through}
         IN IF cands = {} THEN NoEntry ELSE SetMin(cands)

\* nx.shortest_path_length(graph, source=quarry, weight="weight")[x]; NoEntry
\* for a vertex the result has no key for.
ShortestPathLength(quarry, x) ==
    DistanceWithin(quarry, x, Cardinality(vertices) - 1)

\* The vertices that may precede x on a shortest path from quarry to x.
Predecessors(D, quarry, x) ==
    {y \in Neighbours(linears, x) :
        D[y][quarry] # NoEntry /\ D[y][quarry] + Weight(linears, y, x) = D[x][quarry]}

\* Keys of the distance dict of vertex x.
Keys(x) == {q \in quarries : distances_to_quarries[x][q] # NoEntry}

\* ---------------------------------------------------------------- load
\* The check of a missing path, on the quarries instead of the other facilities.
FacilityWithoutPath_OverQuarries(D) ==
    \E x \in quarries : \A q \in quarries : D[x][q] = NoEntry

\* Some facility that is not a quarry has an empty distance dict.
FacilityWithoutPath(D) ==
    \E x \in vertices \ quarries : \A q \in quarries : D[x][q] = NoEntry

\* _compute_distances_to_quarries: single-source shortest paths from every
\* quarry; an ordinary vertex without any entry raises.  networkx returns one
\* of the shortest paths; which one, among equally long ones, is its choice
\* (`lowest`).
ComputeDistances ==
    /\ pc = "compute_distances"
    /\ distances_to_quarries' =
           [x \in vertices |-> [q \in quarries |-> ShortestPathLength(q, x)]]
    /\ \E lowest \in BOOLEAN :
           second_vertex_in_path' =
               [x \in vertices |-> [q \in quarries |->
                   IF distances_to_quarries'[x][q] = NoEntry THEN NoEntry
                   ELSE IF x = q THEN None
                   ELSE IF lowest THEN SetMin(Predecessors(distances_to_quarries', q, x))
                   ELSE SetMax(Predecessors(distances_to_quarries', q, x))]]
    /\ IF FacilityWithoutPath(distances_to_quarries')
       THEN /\ pc' = "error"
            /\ error' = "unreachable"
       ELSE /\ pc' = "traverse"
            /\ error' = error
    /\ UNCHANGED <<vertices, quarries, quarry_order, linears, geom_length,
                   input_linears, initial_capacities, quarries_capacities,
                   road_coeff, edge_attached_quarry, available_vertex_id,
                   queue, stack, last, scale>>
    /\ UNCHANGED <<network_fields, first_run>>

\* min(self.distances_to_quarries[x].values())
MinDistance(x) == SetMin({distances_to_quarries[x][q] : q \in Keys(x)})

\* The score taken from the first endpoint alone.
EdgeDistance_FirstOnly(e) == MinDistance(e.first)

\* The score of an edge: the smaller of its endpoints' distances to their
\* nearest quarry.
EdgeDistance(e) ==
    IF MinDistance(e.first) <= MinDistance(e.last)
    THEN MinDistance(e.first) ELSE MinDistance(e.last)

\* The (u, v) pair graph.edges yields for the edge: u is the endpoint that
\* comes first in the node order (the vertices are listed ascending).  The
\* tuples sorted are those of Network.traverse_edges_by_increasing_distance_
\* to_quarry, (edge_distance, (u, v)); EdgesSplitter's copy sorts
\* (edge_distance, linear) and leaves equal distances to the order of the
\* Linear class.
EdgeTuple(e) ==
    IF e.first <= e.last THEN <<e.first, e.last>> ELSE <<e.last, e.first>>

\* Python's order of the tuples (edge_distance, (u, v)).
TupleLess(e1, e2) ==
    \/ EdgeDistance(e1) < EdgeDistance(e2)
    \/ /\ EdgeDistance(e1) = EdgeDistance(e2)
       /\ \/ EdgeTuple(e1)[1] < EdgeTuple(e2)[1]
          \/ /\ EdgeTuple(e1)[1] = EdgeTuple(e2)[1]
             /\ EdgeTuple(e1)[2] < EdgeTuple(e2)[2]

\* distances_and_edges.sort()
RECURSIVE SortEdges(_)
SortEdges(S) ==
    IF S = {} THEN << >>
    ELSE LET m == CHOOSE e \in S : \A o \in S \ {e} : TupleLess(e, o)
         IN <<m>> \o SortEdges(S \ {m})

\* _traverse_linears_by_increasing_distance_to_quarry: the list calculate()
\* iterates over, built once from the edges of the input.
Traverse ==
    /\ pc = "traverse"
    /\ queue' = SortEdges(linears)
    /\ pc' = "loop"
    /\ UNCHANGED <<vertices, quarries, quarry_order, linears, geom_length,
                   input_linears, initial_capacities, quarries_capacities,
                   road_coeff, distances_to_quarries, second_vertex_in_path,
                   edge_attached_quarry, available_vertex_id, stack, error,
                   last, scale>>
    /\ UNCHANGED <<network_fields, first_run>>

\* calculate(), the for loop: the next linear of the list is handed to
\* _construct_edge once the previous call (with all its recursive calls)
\* has returned.
NextLinear ==
    /\ pc = "loop"
    /\ stack = << >>
    /\ queue # << >>
    /\ stack' = <<Head(queue)>>
    /\ queue' = Tail(queue)
    /\ UNCHANGED <<vertices, quarries, quarry_order, linears, geom_length,
                   input_linears, initial_capacities, quarries_capacities,
                   road_coeff, distances_to_quarries, second_vertex_in_path,
                   edge_attached_quarry, available_vertex_id, pc, error,
                   last, scale>>
    /\ UNCHANGED <<network_fields, first_run>>

\* calculate() returns.
Finish ==
    /\ pc = "loop"
    /\ stack = << >>
    /\ queue = << >>
    /\ pc' = "done"
    /\ UNCHANGED <<vertices, quarries, quarry_order, linears, geom_length,
                   input_linears, initial_capacities, quarries_capacities,
                   road_coeff, distances_to_quarries, second_vertex_in_path,
                   edge_attached_quarry, available_vertex_id, queue, stack,
                   error, last, scale>>
    /\ UNCHANGED <<network_fields, first_run>>

\* ---------------------------------------------------------------- split
\* The cut measured from the first point whatever from_end says.
SplitPoint_FromFirst(length, new_edge_length, from_end) == new_edge_length

\* _split_edge, the arc length from the first point at which the line is cut:
\* length * split_coeff, with split_coeff = new_edge_length / length, taken
\* from the far end when from_end.
SplitPoint(length, new_edge_length, from_end) ==
    IF from_end THEN length - new_edge_length ELSE new_edge_length

\* _split_edge refuses a new edge that is not shorter than the edge.
SplitRefused(length, new_edge_length) == length <= new_edge_length

\* The entry of the new vertex taken through the start facility always.
NewDistance_ThroughStart(first_distance, first_new_length, second_distance, new_second_length) ==
    first_distance + first_new_length

\* _recompute_paths, the entry of the new vertex for one quarry:
\* first_distance + first_new_length against second_distance + new_second_length.
NewDistance(first_distance, first_new_length, second_distance, new_second_length) ==
    IF first_distance + first_new_length < second_distance + new_second_length
    THEN first_distance + first_new_length
    ELSE second_distance + new_second_length

\* The new vertex pointed at the start facility always.
NewSecondVertex_AlwaysStart(first_distance, first_new_length, second_distance, new_second_length, start_facility, end_facility) ==
    start_facility

NewSecondVertex(first_distance, first_new_length, second_distance, new_second_length, start_facility, end_facility) ==
    IF first_distance + first_new_length < second_distance + new_second_length
    THEN start_facility
    ELSE end_facility

\* A stored number in the units of a denominator k times finer.
Rescale(k, x) == IF x = NoEntry THEN NoEntry ELSE k * x

\* _split_edge(linear, new_edge_length, from_end), with _recompute_paths:
\* the linear is replaced by start_linear (first point to new facility) and
\* end_linear (new facility to last point).  new_edge_length is given in the
\* units of the new denominator k * scale.
SplitEdge(linear, new_edge_length, from_end, k) ==
    LET length == k * geom_length[linear]
        start_facility == linear.first
        end_facility == linear.last
        new_facility == available_vertex_id + 1
        start_linear == Linear(start_facility, new_facility)
        end_linear == Linear(new_facility, end_facility)
        first_new_length == SplitPoint(length, new_edge_length, from_end)
        new_second_length == length - first_new_length
        d(x, q) == Rescale(k, distances_to_quarries[x][q])
    IN  /\ available_vertex_id' = new_facility
        /\ vertices' = vertices \cup {new_facility}
        /\ linears' = (linears \ {linear}) \cup {start_linear, end_linear}
        /\ geom_length' =
               [e \in DOMAIN geom_length \cup {start_linear, end_linear} |->
                   IF e = start_linear THEN first_new_length
                   ELSE IF e = end_linear THEN new_second_length
                   ELSE k * geom_length[e]]
        /\ distances_to_quarries' =
               [x \in vertices \cup {new_facility} |-> [q \in quarries |->
                   IF x # new_facility THEN d(x, q)
                   ELSE IF q \notin Keys(start_facility) THEN NoEntry
                   ELSE NewDistance(d(start_facility, q), first_new_length,
                                    d(end_facility, q), new_second_length)]]
        /\ second_vertex_in_path' =
               [x \in vertices \cup {new_facility} |-> [q \in quarries |->
                   IF x = new_facility
                   THEN IF q \notin Keys(start_facility) THEN NoEntry
                        ELSE NewSecondVertex(d(start_facility, q), first_new_length,
                                             d(end_facility, q), new_second_length,
                                             start_facility, end_facility)
                   ELSE IF x = end_facility /\ second_vertex_in_path[x][q] = start_facility
                   THEN new_facility
                   ELSE IF x = start_facility /\ second_vertex_in_path[x][q] = end_facility
                   THEN new_facility
                   ELSE second_vertex_in_path[x][q]]]
        /\ scale' = k * scale

\* ---------------------------------------------------------------- driver
\* _find_nearest_not_empty_quarry: the first quarry, in the dict's order,
\* of smallest distance among those whose capacity is not close to 0.
FindNearestNotEmptyQuarry(x) ==
    LET cands == {i \in 1..Len(quarry_order) :
                     /\ quarry_order[i] \in Keys(x)
                     /\ ~IsClose(quarries_capacities[quarry_order[i]], 0)}
        best == {i \in cands : \A j \in cands :
                     distances_to_quarries[x][quarry_order[i]]
                         <= distances_to_quarries[x][quarry_order[j]]}
    IN IF cands = {} THEN None ELSE quarry_order[SetMin(best)]

\* The endpoints are swapped when the first one is farther from its quarry.
WereFacilitiesInverted(first_distance, last_distance) == first_distance > last_distance

\* The far end keeps its own quarry.
TieQuarry_KeepOwn(end_facility, start_nearest_quarry, end_nearest_quarry) ==
    end_nearest_quarry

\* The far end takes the near end's quarry when it is as far from it as from
\* its own.
TieQuarry(end_facility, start_nearest_quarry, end_nearest_quarry) ==
    IF IsClose(distances_to_quarries[end_facility][start_nearest_quarry],
               distances_to_quarries[end_facility][end_nearest_quarry])
    THEN start_nearest_quarry
    ELSE end_nearest_quarry

\* The path test without the length of the edge.
MustSplit_NoLength(start_nearest_quarry, end_nearest_quarry, start_distance, end_distance, length) ==
    \/ start_nearest_quarry # end_nearest_quarry
    \/ ~IsClose(end_distance, start_distance)

\* The split decided on the quarries alone.
MustSplit_QuarriesOnly(start_nearest_quarry, end_nearest_quarry, start_distance, end_distance, length) ==
    start_nearest_quarry # end_nearest_quarry

\* The edge has to be split: the quarries differ, or the far end's path to
\* the quarry does not run over the edge.
MustSplit(start_nearest_quarry, end_nearest_quarry, start_distance, end_distance, length) ==
    \/ start_nearest_quarry # end_nearest_quarry
    \/ ~IsClose(end_distance, start_distance + length)

\* The edge cut in the middle, wherever the watershed is.
TwiceNewLength_Middle(length, start_distance, end_distance) == length

\* Twice the watershed length (length + path_difference) / 2.
TwiceNewLength(length, start_distance, end_distance) ==
    length + (end_distance - start_distance)

\* The volume without the cross-section of the road.
ComputeRequiredVolume_NoCoeff(length) == length

\* _compute_required_volume
ComputeRequiredVolume(length) == road_coeff * length

\* The length taken for the volume.
FindMaxRoadLength_NoCoeff(capacity) == capacity

\* _find_max_road_length; capacities are multiples of road_coeff on the grid.
FindMaxRoadLength(capacity) == capacity \div road_coeff

\* The edge is assigned whatever the capacity.
CanAssign_Always(required_volume, capacity) == TRUE

\* The whole edge can be built from the quarry.
CanAssign(required_volume, capacity) == required_volume < capacity

\* edge_attached_quarry after a step: A over the linears that exist after it,
\* with the linear e bound to q.
Attach(A, D, e, q) ==
    [x \in D |-> IF x = e THEN q ELSE IF x \in DOMAIN A THEN A[x] ELSE None]

\* _construct_edge returns at once: an endpoint has no quarry left.
ReturnExhausted(linear) ==
    /\ stack' = Tail(stack)
    /\ last' = [NoLast EXCEPT !.kind = "exhausted", !.linear = linear]
    /\ UNCHANGED <<vertices, quarries, quarry_order, linears, geom_length,
                   input_linears, initial_capacities, quarries_capacities,
                   road_coeff, distances_to_quarries, second_vertex_in_path,
                   edge_attached_quarry, available_vertex_id, queue, pc,
                   error, scale>>
    /\ UNCHANGED <<network_fields, first_run>>

\* _split_edge raises: calculate() ends with the exception.
RaiseSplitLength(linear, rec) ==
    /\ pc' = "error"
    /\ error' = "split_length"
    /\ last' = [rec EXCEPT !.kind = "split_refused"]
    /\ UNCHANGED <<vertices, quarries, quarry_order, linears, geom_length,
                   input_linears, initial_capacities, quarries_capacities,
                   road_coeff, distances_to_quarries, second_vertex_in_path,
                   edge_attached_quarry, available_vertex_id, queue, stack,
                   scale>>
    /\ UNCHANGED <<network_fields, first_run>>

\* The watershed branch: split at new_length from the near end, then
\* _construct_edge(start_linear), _construct_edge(end_linear).
WatershedSplit(linear, rec) ==
    LET twice == TwiceNewLength(rec.length, rec.du, rec.dv)
        k == IF twice % 2 = 0 THEN 1 ELSE 2
        new_length == (k * twice) \div 2
        new_facility == available_vertex_id + 1
        start_linear == Linear(linear.first, new_facility)
        end_linear == Linear(new_facility, linear.last)
    IN  IF SplitRefused(2 * rec.length, twice)
        THEN RaiseSplitLength(linear, [rec EXCEPT !.s = twice])
        ELSE /\ SplitEdge(linear, new_length, rec.inverted, k)
             /\ stack' = <<start_linear, end_linear>> \o Tail(stack)
             /\ quarries_capacities' = [q \in quarries |-> k * quarries_capacities[q]]
             /\ initial_capacities' = [q \in quarries |-> k * initial_capacities[q]]
             /\ edge_attached_quarry' =
                    Attach(edge_attached_quarry, DOMAIN geom_length', linear, None)
             /\ last' = [rec EXCEPT !.kind = "watershed", !.length = k * rec.length,
                                    !.du = k * rec.du, !.dv = k * rec.dv,
                                    !.capacity = k * rec.capacity,
                                    !.s = new_length, !.w = new_facility,
                                    !.near = IF rec.inverted THEN end_linear ELSE start_linear,
                                    !.far = IF rec.inverted THEN start_linear ELSE end_linear]
             /\ UNCHANGED <<quarries, quarry_order, input_linears, road_coeff,
                            queue, pc, error>>
             /\ UNCHANGED <<network_fields, first_run>>

\* The whole edge is bound to the quarry and its volume debited.
AssignEdge(linear, rec) ==
    /\ quarries_capacities' =
           [quarries_capacities EXCEPT ![rec.qu] = @ - ComputeRequiredVolume(rec.length)]
    /\ edge_attached_quarry' =
           Attach(edge_attached_quarry, DOMAIN geom_length, linear, rec.qu)
    /\ stack' = Tail(stack)
    /\ last' = [rec EXCEPT !.kind = "assigned"]
    /\ UNCHANGED <<vertices, quarries, quarry_order, linears, geom_length,
                   input_linears, initial_capacities, road_coeff,
                   distances_to_quarries, second_vertex_in_path,
                   available_vertex_id, queue, pc, error, scale>>
    /\ UNCHANGED <<network_fields, first_run>>

\* The capacity branch: split at the length the quarry can still build,
\* empty the quarry, bind the near part, _construct_edge the rest.
CapacitySplit(linear, rec) ==
    LET new_edge_length == FindMaxRoadLength(quarries_capacities[rec.qu])
        new_facility == available_vertex_id + 1
        start_linear == Linear(linear.first, new_facility)
        end_linear == Linear(new_facility, linear.last)
    IN  IF SplitRefused(rec.length, new_edge_length)
        THEN RaiseSplitLength(linear, [rec EXCEPT !.s = new_edge_length])
        ELSE /\ SplitEdge(linear, new_edge_length, rec.inverted, 1)
             /\ quarries_capacities' = [quarries_capacities EXCEPT ![rec.qu] = 0]
             /\ edge_attached_quarry' =
                    Attach(edge_attached_quarry, DOMAIN geom_length',
                           IF rec.inverted THEN end_linear ELSE start_linear, rec.qu)
             /\ stack' = <<IF rec.inverted THEN start_linear ELSE end_linear>> \o Tail(stack)
             /\ last' = [rec EXCEPT !.kind = "capacity_split",
                                    !.s = new_edge_length, !.w = new_facility,
                                    !.near = IF rec.inverted THEN end_linear ELSE start_linear,
                                    !.far = IF rec.inverted THEN start_linear ELSE end_linear]
             /\ UNCHANGED <<quarries, quarry_order, input_linears,
                            initial_capacities, road_coeff, queue, pc, error>>
             /\ UNCHANGED <<network_fields, first_run>>

\* One call of _construct_edge(linear), up to its recursive calls.
ConstructEdge ==
    /\ pc = "loop"
    /\ stack # << >>
    /\ LET linear == Head(stack)
           first_quarry == FindNearestNotEmptyQuarry(linear.first)
           last_quarry == FindNearestNotEmptyQuarry(linear.last)
       IN  IF first_quarry = None \/ last_quarry = None
           THEN ReturnExhausted(linear)
           ELSE LET inverted ==
                        WereFacilitiesInverted(
                            distances_to_quarries[linear.first][first_quarry],
                            distances_to_quarries[linear.last][last_quarry])
                    start_facility == IF inverted THEN linear.last ELSE linear.first
                    end_facility == IF inverted THEN linear.first ELSE linear.last
                    start_nearest_quarry == IF inverted THEN last_quarry ELSE first_quarry
                    own_nearest_quarry == IF inverted THEN first_quarry ELSE last_quarry
                    end_nearest_quarry ==
                        TieQuarry(end_facility, start_nearest_quarry, own_nearest_quarry)
                    length == geom_length[linear]
                    start_distance == distances_to_quarries[start_facility][start_nearest_quarry]
                    end_distance == distances_to_quarries[end_facility][end_nearest_quarry]
                    rec == [NoLast EXCEPT
                               !.linear = linear,
                               !.u = start_facility, !.v = end_facility,
                               !.qu = start_nearest_quarry, !.qv = end_nearest_quarry,
                               !.own_qv = own_nearest_quarry,
                               !.inverted = inverted,
                               !.single = ~MustSplit(start_nearest_quarry, end_nearest_quarry,
                                                     start_distance, end_distance, length),
                               !.length = length,
                               !.du = start_distance,
                               !.dv = end_distance,
                               !.capacity = quarries_capacities[start_nearest_quarry]]
                IN  IF MustSplit(rec.qu, rec.qv, rec.du, rec.dv, rec.length)
                    THEN WatershedSplit(linear, rec)
                    ELSE IF CanAssign(ComputeRequiredVolume(rec.length),
                                      quarries_capacities[rec.qu])
                    THEN AssignEdge(linear, rec)
                    ELSE CapacitySplit(linear, rec)

Next ==
    \/ ComputeDistances
    \/ Traverse
    \/ NextLinear
    \/ ConstructEdge
    \/ Finish

Spec == Init /\ [][Next]_vars

\* ------------------------------------------------- Network.split_edge
\* The networks split_edge is called on directly: the single edges and the
\* paths between two quarries of the inputs, with lines long enough to be
\* cut more than once.
NetworkInputs ==
    {net \in InputNetworks :
        /\ net.n = Len(net.edges) + 1
        /\ net.n = 2 \/ (net.quarries = {0, 2} /\ net.edges[1] = <<0, 1>>)}

SplitLengths == (MaxLine - 1)..MaxLine

\* A Network as constructed, before compute_distances_to_quarries.
NetworkInit ==
    \E net \in NetworkInputs :
    \E lens \in [1..Len(net.edges) -> SplitLengths] :
        /\ vertices = 0..(net.n - 1)
        /\ quarries = net.quarries
        /\ quarry_order \in {s \in Orders(net.quarries) :
                                \A i, j \in 1..Len(s) : i < j => s[i] < s[j]}
        /\ input_linears = [i \in 1..Len(net.edges) |-> Linear(net.edges[i][1], net.edges[i][2])]
        /\ linears = {Linear(net.edges[i][1], net.edges[i][2]) : i \in 1..Len(net.edges)}
        /\ geom_length =
               [e \in {Linear(net.edges[i][1], net.edges[i][2]) : i \in 1..Len(net.edges)} |->
                   lens[CHOOSE i \in 1..Len(net.edges) : Linear(net.edges[i][1], net.edges[i][2]) = e]]
        /\ weight = geom_length
        /\ edge_to_line_mapping =
               [e \in {Linear(net.edges[i][1], net.edges[i][2]) : i \in 1..Len(net.edges)} |->
                   [from |-> e.first, to |-> e.last]]
        /\ original_edge =
               [e \in {Linear(net.edges[i][1], net.edges[i][2]) : i \in 1..Len(net.edges)} |->
                   EdgeKey(e.first, e.last)]
        /\ road_coeff = 1
        /\ initial_capacities = [q \in net.quarries |-> AmpleCap]
        /\ quarries_capacities = initial_capacities
        /\ distances_to_quarries = [v \in 0..(net.n - 1) |-> [q \in net.quarries |-> NoEntry]]
        /\ second_vertex_in_path = [v \in 0..(net.n - 1) |-> [q \in net.quarries |-> NoEntry]]
        /\ edge_attached_quarry = [e \in {Linear(net.edges[i][1], net.edges[i][2]) : i \in 1..Len(net.edges)} |-> None]
        /\ available_vertex_id = net.n - 1
        /\ queue = << >>
        /\ stack = << >>
        /\ pc = "compute_distances"
        /\ error = "none"
        /\ last = NoLast
        /\ scale = 1
        /\ first_run = NoRun

\* line.interpolate(split_coeff, normalized=True), as the arc length of the
\* point from the start of a line of the given length; distance is
\* split_coeff * length.  A negative distance is taken back from the end of
\* the line, and a distance off the line is clipped to the nearer end.
Interpolate(length, distance) ==
    IF distance < 0
    THEN (IF length + distance < 0 THEN 0 ELSE length + distance)
    ELSE IF distance > length THEN length ELSE distance

\* utils.split_line_string_by_point, by the lengths of the lines returned:
\* the line itself when the point projects on one of its ends, else the two
\* parts.  distance is line_string.project(point).
SplitLineStringByPoint(length, distance) ==
    IF distance <= 0 \/ distance >= length
    THEN <<length>>
    ELSE <<distance, length - distance>>

\* Each part keyed by itself, as the edges of the input are.
OriginalEdgeAfterSplit_OwnKeys(edge, start_edge, end_edge) ==
    [e \in (DOMAIN original_edge \ {edge}) \cup {start_edge, end_edge} |->
        IF e \in {start_edge, end_edge} THEN EdgeKey(e.first, e.last)
        ELSE original_edge[e]]

\* original_edge after split_edge has replaced edge by start_edge and
\* end_edge: both inherit the entry of edge, which is deleted.
OriginalEdgeAfterSplit(edge, start_edge, end_edge) ==
    [e \in (DOMAIN original_edge \ {edge}) \cup {start_edge, end_edge} |->
        IF e \in {start_edge, end_edge} THEN original_edge[edge]
        ELSE original_edge[e]]

\* The call recorded: its arguments, the line it read and what it made.
SplitCall(kind, edge, start_vertex, end_vertex, new_edge_length, from_end, length, new_vertex) ==
    [NoLast EXCEPT !.kind = kind, !.linear = edge,
                   !.u = start_vertex, !.v = end_vertex,
                   !.s = new_edge_length, !.inverted = from_end,
                   !.length = length, !.w = new_vertex,
                   !.near = Linear(start_vertex, new_vertex),
                   !.far = Linear(new_vertex, end_vertex)]

\* split_edge raises before it has changed anything: the assertion on the
\* length, or the unpacking of the single line split_line_string_by_point
\* returned.
SplitEdgeRaises(call, exception) ==
    /\ pc' = "error"
    /\ error' = exception
    /\ last' = call
    /\ UNCHANGED <<vertices, quarries, quarry_order, linears, geom_length,
                   input_linears, initial_capacities, quarries_capacities,
                   road_coeff, distances_to_quarries, second_vertex_in_path,
                   edge_attached_quarry, available_vertex_id, queue, stack,
                   scale, weight, edge_to_line_mapping, original_edge,
                   first_run>>

\* The vertices of the input: split-created vertices are neither quarries
\* nor ends of input edges.
InputVertices ==
    quarries \cup {input_linears[i].first : i \in 1..Len(input_linears)}
             \cup {input_linears[i].last : i \in 1..Len(input_linears)}

\* Network.split_edge(start_vertex, end_vertex, new_edge_length, from_end),
\* with _recompute_paths, called on a loaded network.
NetworkSplitEdge(start_vertex, end_vertex, new_edge_length, from_end) ==
    LET edge == LinearBetween(linears, start_vertex, end_vertex)
        stored == edge_to_line_mapping[edge]
        line == IF from_end THEN [from |-> stored.to, to |-> stored.from] ELSE stored
        length == geom_length[edge]
        distance == Interpolate(length, new_edge_length)
        lines == SplitLineStringByPoint(length, distance)
        new_vertex == available_vertex_id + 1
        start_edge == Linear(start_vertex, new_vertex)
        end_edge == Linear(new_vertex, end_vertex)
        first_new_length == new_edge_length
        new_second_length == length - new_edge_length
        call(kind) == SplitCall(kind, edge, start_vertex, end_vertex, new_edge_length,
                                from_end, length, new_vertex)
    IN  /\ pc = "traverse"
        /\ Cardinality(vertices \ InputVertices) < MaxSplits
        /\ Adjacent(linears, start_vertex, end_vertex)
        /\ IF ~(new_edge_length < length)
           THEN SplitEdgeRaises(call("split_edge_raised"), "split_length")
           ELSE IF Len(lines) # 2
           THEN SplitEdgeRaises(call("split_edge_raised"), "unpack")
           ELSE /\ available_vertex_id' = new_vertex
                /\ vertices' = vertices \cup {new_vertex}
                /\ linears' = (linears \ {edge}) \cup {start_edge, end_edge}
                /\ weight' =
                       [e \in (DOMAIN weight \ {edge}) \cup {start_edge, end_edge} |->
                           IF e = start_edge THEN first_new_length
                           ELSE IF e = end_edge THEN new_second_length
                           ELSE weight[e]]
                /\ geom_length' =
                       [e \in (DOMAIN geom_length \ {edge}) \cup {start_edge, end_edge} |->
                           IF e = start_edge THEN lines[1]
                           ELSE IF e = end_edge THEN lines[2]
                           ELSE geom_length[e]]
                /\ edge_to_line_mapping' =
                       [e \in (DOMAIN edge_to_line_mapping \ {edge}) \cup {start_edge, end_edge} |->
                           IF e = start_edge THEN [from |-> line.from, to |-> new_vertex]
                           ELSE IF e = end_edge THEN [from |-> new_vertex, to |-> line.to]
                           ELSE edge_to_line_mapping[e]]
                /\ distances_to_quarries' =
                       [x \in vertices \cup {new_vertex} |-> [q \in quarries |->
                           IF x # new_vertex THEN distances_to_quarries[x][q]
                           ELSE IF q \notin Keys(start_vertex) THEN NoEntry
                           ELSE NewDistance(distances_to_quarries[start_vertex][q], first_new_length,
                                            distances_to_quarries[end_vertex][q], new_second_length)]]
                /\ second_vertex_in_path' =
                       [x \in vertices \cup {new_vertex} |-> [q \in quarries |->
                           IF x = new_vertex
                           THEN IF q \notin Keys(start_vertex) THEN NoEntry
                                ELSE NewSecondVertex(distances_to_quarries[start_vertex][q], first_new_length,
                                                     distances_to_quarries[end_vertex][q], new_second_length,
                                                     start_vertex, end_vertex)
                           ELSE IF x = end_vertex /\ second_vertex_in_path[x][q] = start_vertex
                           THEN new_vertex
                           ELSE IF x = start_vertex /\ second_vertex_in_path[x][q] = end_vertex
                           THEN new_vertex
                           ELSE second_vertex_in_path[x][q]]]
                /\ original_edge' = OriginalEdgeAfterSplit(edge, start_edge, end_edge)
                /\ last' = call("split_edge")
                /\ UNCHANGED <<quarries, quarry_order, input_linears,
                               initial_capacities, quarries_capacities,
                               road_coeff, edge_attached_quarry, queue, stack,
                               pc, error, scale, first_run>>

\* A client calls split_edge on an edge of the network, its vertices given
\* in either order, with a length in or out of the line.
CallSplitEdge ==
    /\ pc = "traverse"
    /\ Cardinality(vertices \ InputVertices) < MaxSplits
    /\ \E start_vertex, end_vertex \in vertices :
       \E from_end \in BOOLEAN :
       \E new_edge_length \in (-1)..(MaxLine + 1) :
           /\ Adjacent(linears, start_vertex, end_vertex)
           /\ new_edge_length <= geom_length[LinearBetween(linears, start_vertex, end_vertex)] + 1
           /\ NetworkSplitEdge(start_vertex, end_vertex, new_edge_length, from_end)

NetworkNext ==
    \/ ComputeDistances
    \/ CallSplitEdge

NetworkSpec == NetworkInit /\ [][NetworkNext]_vars

\* ------------------------------------------------- calculate(), twice
\* The parts an input edge has been cut into, from x (reached from prev) to
\* the next vertex of the input: the length and the quarry of each.
RECURSIVE PartsFrom(_, _)
PartsFrom(prev, x) ==
    LET e == LinearBetween(linears, prev, x)
        part == [length |-> geom_length[e], quarry |-> edge_attached_quarry[e]]
    IN  IF x \in InputVertices THEN <<part>>
        ELSE <<part>> \o PartsFrom(x, CHOOSE y \in Neighbours(linears, x) : y # prev)

\* The input vertex at the end of the chain of split-created vertices that
\* starts at x, coming from prev.
RECURSIVE EndOfChain(_, _)
EndOfChain(prev, x) ==
    IF x \in InputVertices THEN x
    ELSE EndOfChain(x, CHOOSE y \in Neighbours(linears, x) : y # prev)

\* The parts of the input edge between a and b, listed from a.
PartsBetween(a, b) ==
    PartsFrom(a, CHOOSE y \in Neighbours(linears, a) : EndOfChain(a, y) = b)

\* utils.compute_road_network_cost over the edges that carry a quarry, as
\* twice the sum of length * distance_to_quarry + length ** 2 / 2 (the
\* factor road_height * road_width * unit_cost left out).
RECURSIVE TwiceCost(_)
TwiceCost(E) ==
    IF E = {} THEN 0
    ELSE LET e == CHOOSE x \in E : TRUE
             q == edge_attached_quarry[e]
             du == distances_to_quarries[e.first][q]
             dv == distances_to_quarries[e.last][q]
             distance_to_quarry == IF du <= dv THEN du ELSE dv
         IN  2 * geom_length[e] * distance_to_quarry + geom_length[e] * geom_length[e]
                 + TwiceCost(E \ {e})

\* What calculate() has left: for every input edge, in the order of the
\* incidence list, its parts from the endpoint of smaller id; the
\* capacities; the cost.
RunResult ==
    [taken |-> TRUE,
     scale |-> scale,
     parts |-> [i \in 1..Len(input_linears) |->
                   IF input_linears[i].first <= input_linears[i].last
                   THEN PartsBetween(input_linears[i].first, input_linears[i].last)
                   ELSE PartsBetween(input_linears[i].last, input_linears[i].first)],
     capacities |-> quarries_capacities,
     cost |-> TwiceCost({e \in linears : edge_attached_quarry[e] # None})]

\* The same network with every edge stored the other way round is built and
\* handed to a new EdgesSplitter, once calculate() has returned for the
\* network as first stored; the result of the first run is kept.
RunReversed ==
    LET reversed(e) == Linear(e.last, e.first)
        inputs == {reversed(input_linears[i]) : i \in 1..Len(input_linears)}
    IN  /\ pc = "done"
        /\ ~first_run.taken
        /\ first_run' = RunResult
        /\ vertices' = InputVertices
        /\ input_linears' = [i \in 1..Len(input_linears) |-> reversed(input_linears[i])]
        /\ linears' = inputs
        /\ geom_length' = [e \in inputs |-> geom_length[reversed(e)] \div scale]
        /\ weight' = [e \in inputs |-> geom_length[reversed(e)] \div scale]
        /\ edge_to_line_mapping' = [e \in inputs |-> [from |-> e.first, to |-> e.last]]
        /\ original_edge' = [e \in inputs |-> EdgeKey(e.first, e.last)]
        /\ initial_capacities' = [q \in quarries |-> initial_capacities[q] \div scale]
        /\ quarries_capacities' = [q \in quarries |-> initial_capacities[q] \div scale]
        /\ distances_to_quarries' = [x \in InputVertices |-> [q \in quarries |-> NoEntry]]
        /\ second_vertex_in_path' = [x \in InputVertices |-> [q \in quarries |-> NoEntry]]
        /\ edge_attached_quarry' = [e \in inputs |-> None]
        /\ available_vertex_id' = SetMax(InputVertices)
        /\ queue' = << >>
        /\ stack' = << >>
        /\ pc' = "compute_distances"
        /\ error' = "none"
        /\ last' = NoLast
        /\ scale' = 1
        /\ UNCHANGED <<quarries, quarry_order, road_coeff>>

TwoRunsNext ==
    \/ ComputeDistances
    \/ Traverse
    \/ NextLinear
    \/ ConstructEdge
    \/ Finish
    \/ RunReversed

TwoRunsSpec == Init /\ [][TwoRunsNext]_vars

\* ================================================================ claims
\* The edges of the input, as a set.
InputSet == {input_linears[i] : i \in 1..Len(input_linears)}

\* Position of an input edge in the incidence list.
InputIndex(e) == CHOOSE i \in 1..Len(input_linears) : input_linears[i] = e

\* The linears that carry a quarry.
Assigned == {e \in DOMAIN edge_attached_quarry : edge_attached_quarry[e] # None}

\* Volume taken out of the quarries so far.
Debited == SumOver([q \in quarries |-> initial_capacities[q] - quarries_capacities[q]], quarries)

\* The vertices joined to the vertices S by a path of live edges.
RECURSIVE ConnectedTo(_)
ConnectedTo(S) ==
    LET T == S \cup {y \in vertices : \E x \in S : Adjacent(linears, x, y)}
    IN IF T = S THEN S ELSE ConnectedTo(T)

\* Some ordinary vertex has no path to any quarry.
SomeVertexCutOff == \E x \in vertices \ quarries : ConnectedTo({x}) \cap quarries = {}

\* Nothing has been split, debited or assigned.
Untouched ==
    /\ linears = InputSet
    /\ DOMAIN geom_length = InputSet
    /\ quarries_capacities = initial_capacities
    /\ Assigned = {}
    /\ scale = 1

\* The last _construct_edge call got past the search of the quarries.
LastDecided == last.kind \in {"watershed", "assigned", "capacity_split", "split_refused"}

\* ---------------------------------------------------------------- C1
\* C1: when calculate() has returned without raising, every live edge has
\* an assigned quarry, whatever the capacities.
C1_TotalAssignment ==
    pc = "done" => \A e \in linears : edge_attached_quarry[e] # None

\* ---------------------------------------------------------------- C2
\* C2: a _construct_edge call that finds an endpoint without a reachable
\* non-empty quarry ends calculate() with a Capacity exhausted error.
C2_CapacityExhaustedRaised ==
    last.kind = "exhausted" => (pc = "error" /\ error = "capacity_exhausted")

\* ---------------------------------------------------------------- C3
\* C3: between any two _construct_edge steps and at the end, the volume
\* debited from the quarries equals length * road_width * road_height summed
\* over the assigned edges.
C3_VolumeConservation ==
    Debited = road_coeff * SumOver(geom_length, Assigned)

\* C3 witness: the run ended after a capacity split emptied one quarry and a
\* direct assignment debited another.
C3_Witness ==
    /\ pc = "done"
    /\ \E q1, q2 \in quarries :
          /\ initial_capacities[q1] > 0 /\ quarries_capacities[q1] = 0
          /\ 0 < quarries_capacities[q2]
          /\ quarries_capacities[q2] < initial_capacities[q2]
    /\ Cardinality(Assigned) >= 3
    /\ road_coeff = 2

\* ---------------------------------------------------------------- C4
\* C4: an edge served by a single quarry whose required volume V is at most
\* the capacity, V = capacity included, is bound whole to the quarry, with
\* the capacity debited by V, no split and no error.
C4_AssignUpToCapacity ==
    (LastDecided /\ last.single /\ road_coeff * last.length <= last.capacity)
        => /\ last.kind = "assigned"
           /\ pc # "error"
           /\ edge_attached_quarry[last.linear] = last.qu
           /\ quarries_capacities[last.qu] = last.capacity - road_coeff * last.length

\* ---------------------------------------------------------------- C5
\* The input has one quarry whose capacity covers the volume of all edges.
SingleAmpleQuarry ==
    /\ Cardinality(quarries) = 1
    /\ \A q \in quarries :
          initial_capacities[q] >= road_coeff * SumOver(geom_length, InputSet)

\* calculate() has returned with the input's edges, all bound to the quarry.
IdentityResult ==
    /\ linears = InputSet
    /\ Cardinality(vertices) = available_vertex_id + 1
    /\ \A e \in linears : edge_attached_quarry[e] \in quarries

\* Every input edge lies on a shortest path from one of its ends to quarry q.
EdgesOnShortestPaths(q) ==
    \A e \in InputSet :
        \/ distances_to_quarries[e.first][q] = distances_to_quarries[e.last][q] + geom_length[e]
        \/ distances_to_quarries[e.last][q] = distances_to_quarries[e.first][q] + geom_length[e]

C6_CapacityMonotone ==
    /\ [](\A q \in quarries : quarries_capacities[q] >= 0)
    /\ [][\A q \in quarries :
             quarries_capacities'[q] * scale <= quarries_capacities[q] * scale']_vars

\* C6 witness: one quarry has been emptied by a capacity split and another
\* partly used.
C6_Witness ==
    \E q1, q2 \in quarries :
        /\ initial_capacities[q1] > 0 /\ quarries_capacities[q1] = 0
        /\ 0 < quarries_capacities[q2]
        /\ quarries_capacities[q2] < initial_capacities[q2]
        /\ last.kind = "assigned"

\* ---------------------------------------------------------------- C7
\* C7: with an ordinary vertex cut off from every quarry, calculate() ends
\* in the Unreachable error at the distance load, with nothing split,
\* debited or assigned.
C7_UnreachableAtLoad ==
    SomeVertexCutOff =>
        /\ pc \in {"compute_distances", "error"}
        /\ pc = "error" => error = "unreachable"
        /\ Untouched
        /\ queue = << >> /\ stack = << >>

\* C7 witness: the load has raised for an input whose vertex 2 is isolated
\* while its other vertices reach the quarry.
C7_Witness ==
    /\ pc = "error"
    /\ error = "unreachable"
    /\ quarries = {0}
    /\ distances_to_quarries[1][0] # NoEntry
    /\ distances_to_quarries[2][0] = NoEntry

\* ---------------------------------------------------------------- C8
\* The score of an edge, from the distance table.
Score(e) ==
    SetMin({distances_to_quarries[x][q] :
               x \in {e.first, e.last}, q \in Keys(e.first) \cup Keys(e.last)}
           \ {NoEntry})

\* The list is the one Traverse has just built.
JustTraversed == pc = "loop" /\ last.kind = "none" /\ stack = << >>

\* The queue holds input edges only, each at most once and all of them
\* right after the traversal, in ascending score.
QueueOfInputEdges ==
    /\ \A i \in 1..Len(queue) : queue[i] \in InputSet
    /\ \A i, j \in 1..Len(queue) : i < j => queue[i] # queue[j]
    /\ JustTraversed => {queue[i] : i \in 1..Len(queue)} = InputSet
    /\ pc \in {"loop", "done"} =>
           \A i, j \in 1..Len(queue) : i < j => Score(queue[i]) <= Score(queue[j])

Lower(e) == IF e.first <= e.last THEN e.first ELSE e.last

Upper(e) == IF e.first <= e.last THEN e.last ELSE e.first

TieAtFarEnd ==
    /\ LastDecided
    /\ last.own_qv # last.qu
    /\ distances_to_quarries[last.v][last.qu] = distances_to_quarries[last.v][last.own_qv]
    /\ last.du < distances_to_quarries[last.v][last.qu]

\* The last call bound its whole edge to the near end's quarry.
WholeEdgeToNearQuarry ==
    /\ last.kind = "assigned"
    /\ last.linear \in linears
    /\ edge_attached_quarry[last.linear] = last.qu

\* C9 as stated: on a tie at the far end the edge is not split and goes
\* whole to the near end's quarry, capacity permitting.
C9_TieNeverSplits ==
    (TieAtFarEnd /\ road_coeff * last.length < last.capacity)
        => WholeEdgeToNearQuarry

\* C9 amended: on a tie at the far end, when moreover the far end's path to
\* the near end's quarry runs over the edge (d(v,q_u) = d(u,q_u) + length),
\* the edge is not split at the watershed, and goes whole to the near end's
\* quarry when the capacity exceeds its volume.
C9_TieOnPathNeverSplits ==
    (TieAtFarEnd /\ distances_to_quarries[last.v][last.qu] = last.du + last.length)
        => /\ last.qv = last.qu
           /\ last.kind # "watershed"
           /\ road_coeff * last.length < last.capacity => WholeEdgeToNearQuarry

\* C9 witness: a tie at the far end of an edge on the path, assigned whole.
C9_Witness ==
    /\ TieAtFarEnd
    /\ distances_to_quarries[last.v][last.qu] = last.du + last.length
    /\ WholeEdgeToNearQuarry

\* ---------------------------------------------------------------- C10
\* C10: a watershed split of an edge of length L with near end u puts the
\* new vertex w at s = (L + d(v,q_v) - d(u,q_u)) / 2 from u, 0 < s < L, so
\* that d(u,q_u) + weight(u,w) = d(v,q_v) + weight(w,v) and the two weights
\* sum to L, inverted endpoints or not.
C10_WatershedPoint ==
    last.kind = "watershed" =>
        /\ 2 * last.s = last.length + last.dv - last.du
        /\ 0 < last.s /\ last.s < last.length
        /\ \E uw, wv \in linears :
              /\ {uw.first, uw.last} = {last.u, last.w}
              /\ {wv.first, wv.last} = {last.w, last.v}
              /\ geom_length[uw] = last.s
              /\ geom_length[uw] + geom_length[wv] = last.length
              /\ last.du + geom_length[uw] = last.dv + geom_length[wv]
        /\ last.w \notin quarries
        /\ last.linear \notin linears

\* C10 witness: a watershed split, off the middle, of an edge whose near end
\* is its last point.
C10_Witness ==
    /\ last.kind = "watershed"
    /\ last.inverted
    /\ last.u = last.linear.last
    /\ last.dv > last.du

\* ---------------------------------------------------------------- C11
\* C11: a call on an edge served by the single quarry q whose capacity is
\* smaller than the edge's volume splits the edge at capacity(q) /
\* (road_width * road_height) from the near end u, sets capacity(q) to 0,
\* binds the part incident to u to q and goes on with the part incident to
\* v only, inverted endpoints or not.
C11_CapacitySplit ==
    (LastDecided /\ last.single /\ last.capacity < road_coeff * last.length)
        => /\ last.kind = "capacity_split"
           /\ pc # "error"
           /\ road_coeff * last.s = last.capacity
           /\ last.linear \notin linears
           /\ last.near \in linears /\ last.far \in linears
           /\ {last.near.first, last.near.last} = {last.u, last.w}
           /\ {last.far.first, last.far.last} = {last.w, last.v}
           /\ geom_length[last.near] = last.s
           /\ geom_length[last.far] = last.length - last.s
           /\ quarries_capacities[last.qu] = 0
           /\ edge_attached_quarry[last.near] = last.qu
           /\ edge_attached_quarry[last.far] = None
           /\ stack # << >> /\ Head(stack) = last.far
           /\ \A i \in 1..Len(stack) : stack[i] # last.near

\* C11 witness: a capacity split of an edge whose near end is its last
\* point, with a road cross-section other than 1.
C11_Witness ==
    /\ last.kind = "capacity_split"
    /\ last.inverted
    /\ last.u = last.linear.last
    /\ road_coeff = 2

\* ---------------------------------------------------------------- C12
\* The input vertex reached from x, coming from prev, along vertices made
\* by splits (each of which lies on two edges).
RECURSIVE ChainEnd(_, _)
ChainEnd(prev, x) ==
    IF x \in InputVertices THEN x
    ELSE ChainEnd(x, CHOOSE y \in Neighbours(linears, x) : y # prev)

\* The edge of the input on whose line the live edge e lies.
Ancestor(e) == EdgeKey(ChainEnd(e.last, e.first), ChainEnd(e.first, e.last))

\* C12: after any sequence of split_edge calls the keys of original_edge
\* are exactly the live edges, and each live edge is mapped to the edge of
\* the input from which it descends.
C12_OriginalEdge ==
    /\ DOMAIN original_edge = linears
    /\ \A e \in linears :
          /\ original_edge[e] = Ancestor(e)
          /\ original_edge[e] \in {EdgeKey(i.first, i.last) : i \in InputSet}

\* C12 witness: a live edge between two vertices made by splits, in a
\* network of two input edges.
C12_Witness ==
    /\ Len(input_linears) = 2
    /\ last.kind = "split_edge"
    /\ \E e \in linears : e.first \notin InputVertices /\ e.last \notin InputVertices

\* ---------------------------------------------------------------- C13
\* The results r1 and r2 of two runs are the same: the same parts of the
\* same lengths bound to the same quarries, the same capacities, the same
\* cost (each in the units of its own run).
SameResult(r1, r2) ==
    /\ \A i \in DOMAIN r1.parts :
          /\ Len(r1.parts[i]) = Len(r2.parts[i])
          /\ \A j \in 1..Len(r1.parts[i]) :
                /\ r1.parts[i][j].length * r2.scale = r2.parts[i][j].length * r1.scale
                /\ r1.parts[i][j].quarry = r2.parts[i][j].quarry
    /\ \A q \in quarries : r1.capacities[q] * r2.scale = r2.capacities[q] * r1.scale
    /\ r1.cost * r2.scale * r2.scale = r2.cost * r1.scale * r1.scale

\* C13: calculate() on the input with every edge stored the other way round
\* returns as it did on the input, with the same split points, the same
\* quarry on every part, the same capacities and the same cost.
C13_OrientationIndependence ==
    first_run.taken =>
        /\ pc # "error"
        /\ pc = "done" => SameResult(first_run, RunResult)

\* C14: a split requested at a length outside the open interval
\* (0, length of the edge) fails with an error and leaves the network as it
\* was: the edge is still there, no vertex was created, and the new vertex
\* has no row in the distance and next tables.
C14_OutOfRangeSplitFails ==
    (/\ last.kind \in {"split_edge", "split_edge_raised"}
     /\ (last.s <= 0 \/ last.s >= last.length))
        => /\ pc = "error"
           /\ last.linear \in linears
           /\ last.w \notin vertices
           /\ last.w \notin DOMAIN distances_to_quarries
           /\ last.w \notin DOMAIN second_vertex_in_path
           /\ available_vertex_id < last.w

\* One round of relaxation of the set D of <<vertex, length>> pairs over the
\* live edges, keeping the shortest length found for each vertex.
Relax(D) ==
    LET forward == {<<pe[2].last, pe[1][2] + geom_length[pe[2]]>> :
                       pe \in {x \in D \X linears : x[2].first = x[1][1]}}
        backward == {<<pe[2].first, pe[1][2] + geom_length[pe[2]]>> :
                        pe \in {x \in D \X linears : x[2].last = x[1][1]}}
        found == D \cup forward \cup backward
    IN  {c \in found : \A c2 \in found : c2[1] = c[1] => c[2] <= c2[2]}

RECURSIVE RelaxTimes(_, _)
RelaxTimes(D, n) == IF n = 0 THEN D ELSE RelaxTimes(Relax(D), n - 1)

\* The lengths of the shortest paths to quarry q in the current graph, as
\* <<vertex, length>> pairs for the vertices that reach q.
TrueDistances(q) == RelaxTimes({<<q, 0>>}, Cardinality(vertices) - 1)

DistanceTableIsTrue ==
    \A q \in quarries :
        LET T == TrueDistances(q)
        IN  \A x \in vertices :
                IF \E c \in T : c[1] = x
                THEN <<x, distances_to_quarries[x][q]>> \in T
                ELSE distances_to_quarries[x][q] = NoEntry

\* After a split the entry of the new vertex is the smaller of the two ways
\* round, through either end of the edge that was split.
NewVertexEntry ==
    last.kind \in {"watershed", "capacity_split"} =>
        \A q \in quarries :
            LET du == distances_to_quarries[last.u][q]
                dv == distances_to_quarries[last.v][q]
                dw == distances_to_quarries[last.w][q]
            IN  IF du = NoEntry THEN dw = NoEntry
                ELSE dw = SetMin({du + geom_length[last.near], dv + geom_length[last.far]})

\* A step that creates a vertex keeps the entries of the vertices there were.
OldEntriesKept ==
    vertices' # vertices =>
        \A x \in vertices : \A q \in quarries :
            IF distances_to_quarries[x][q] = NoEntry
            THEN distances_to_quarries'[x][q] = NoEntry
            ELSE distances_to_quarries'[x][q] * scale = distances_to_quarries[x][q] * scale'

\* C15: once the network is loaded, and after every split, each entry
\* d(x,q) of the distance table is the length of the shortest path from x to
\* q in the current graph; a split of (u,v) at w sets d(w,q) to
\* min(d(u,q) + length(u,w), d(v,q) + length(w,v)) and leaves the entries of
\* the vertices that existed as they were.
C15_DistancesAreShortest ==
    /\ [](pc # "compute_distances" => (DistanceTableIsTrue /\ NewVertexEntry))
    /\ [][OldEntriesKept]_vars

\* A vertex made by a watershed split, nearer to one quarry through one end
\* and to another through the other end, and then a capacity split made
\* from the end of an edge.
C15_Witness ==
    /\ last.kind = "capacity_split"
    /\ last.inverted
    /\ \E w \in vertices \ InputVertices : \E q1, q2 \in quarries :
           /\ second_vertex_in_path[w][q1] # NoEntry
           /\ second_vertex_in_path[w][q2] # NoEntry
           /\ second_vertex_in_path[w][q1] # second_vertex_in_path[w][q2]

\* The vertex reached from x by following the next pointers towards q for at
\* most n steps, stopping at q or at a vertex without a pointer.
RECURSIVE FollowNext(_, _, _)
FollowNext(x, q, n) ==
    IF n = 0 \/ x = q \/ x \notin vertices THEN x
    ELSE FollowNext(second_vertex_in_path[x][q], q, n - 1)

\* C16: in every state after the load, for every quarry q the next(.,q)
\* pointers form a tree rooted at q over the vertices that reach q:
\* next(q,q) is none, every other such vertex x points at a neighbour over a
\* live edge with d(x,q) = length(x, next(x,q)) + d(next(x,q), q), and
\* following the pointers from x arrives at q without repeating a vertex.
C16_NextTree ==
    pc # "compute_distances" =>
        \A q \in quarries :
            /\ second_vertex_in_path[q][q] = None
            /\ \A x \in vertices \ {q} :
                   LET y == second_vertex_in_path[x][q]
                   IN  IF distances_to_quarries[x][q] = NoEntry THEN y = NoEntry
                       ELSE /\ y \in vertices
                            /\ Adjacent(linears, x, y)
                            /\ distances_to_quarries[y][q] # NoEntry
                            /\ distances_to_quarries[x][q] =
                                   Weight(linears, x, y) + distances_to_quarries[y][q]
                            /\ distances_to_quarries[y][q] < distances_to_quarries[x][q]
                            /\ FollowNext(x, q, Cardinality(vertices) - 1) = q

\* Splits have redirected the pointer of an input vertex to a created
\* vertex, and a created vertex points to different ends for two quarries.
C16_Witness ==
    /\ pc = "done"
    /\ \E x \in InputVertices : \E q \in quarries :
           second_vertex_in_path[x][q] \in vertices \ InputVertices
    /\ \E w \in vertices \ InputVertices : \E q1, q2 \in quarries :
           /\ second_vertex_in_path[w][q1] \in vertices
           /\ second_vertex_in_path[w][q2] \in vertices
           /\ second_vertex_in_path[w][q1] # second_vertex_in_path[w][q2]

\* C17: Network.split_edge(u, v, new_length, from_end) with
\* 0 < new_length < length removes edge (u,v), creates a vertex w with a
\* fresh id and inserts (u,w) and (w,v), whose weights sum to the old one;
\* the part of weight new_length is the one at u when from_end is false and
\* the one at v when from_end is true, and the line stored for each part
\* starts at the part's first endpoint and is as long as the part's weight.
C17_SplitEdgeParts ==
    (/\ last.kind = "split_edge"
     /\ 0 < last.s
     /\ last.s < last.length)
        => /\ last.linear \notin linears
           /\ last.w \in vertices \ InputVertices
           /\ last.w = available_vertex_id
           /\ {last.near, last.far} \subseteq linears
           /\ weight[last.near] + weight[last.far] = last.length
           /\ IF last.inverted THEN weight[last.far] = last.s
                                ELSE weight[last.near] = last.s
           /\ \A e \in {last.near, last.far} :
                  /\ edge_to_line_mapping[e].from = e.first
                  /\ geom_length[e] = weight[e]

\* C18: after a watershed split of an edge with near endpoint u and far
\* endpoint v into (u,w) and (w,v), the near part (u,w) is the next call of
\* construct_edge and the far part (w,v) waits below it until the calls made
\* for the near part have returned, also when the endpoints were inverted.
C18_NearSideFirst ==
    last.kind = "watershed" =>
        /\ Len(stack) >= 2
        /\ stack[1] = last.near
        /\ stack[2] = last.far
        /\ last.u \in {last.near.first, last.near.last}
        /\ last.v \in {last.far.first, last.far.last}

\* C19, the step of the termination argument: every call of construct_edge
\* assigns its edge, or replaces it by two strictly shorter parts whose
\* lengths sum to the length of the edge, or ends calculate() by raising.
C19_CallAssignsOrSplits ==
    last.kind \notin {"none", "split_edge", "split_edge_raised"} =>
        \/ /\ last.kind = "assigned"
           /\ edge_attached_quarry[last.linear] # None
        \/ /\ last.kind \in {"watershed", "capacity_split"}
           /\ last.linear \notin linears
           /\ {last.near, last.far} \subseteq linears
           /\ 0 < geom_length[last.near]
           /\ 0 < geom_length[last.far]
           /\ geom_length[last.near] + geom_length[last.far] = last.length
        \/ /\ last.kind = "split_refused"
           /\ pc = "error"

\* The edge runs along a shortest path to quarry q: the distances of its
\* two ends to q differ by its length.
OnShortestPath(e, q) ==
    LET dx == distances_to_quarries[e.first][q]
        dy == distances_to_quarries[e.last][q]
    IN  /\ dx # NoEntry
        /\ dy # NoEntry
        /\ (dx - dy = geom_length[e] \/ dy - dx = geom_length[e])

\* C20: in every state each edge bound to a quarry q lies on a shortest path
\* to q, |d(x,q) - d(y,q)| being the length of the edge, so that
\* min(d(x,q), d(y,q)) is the distance from the nearer end of the edge to q;
\* for edges assigned whole and for the consumed part of a capacity split.
C20_AssignedOnShortestPath ==
    \A e \in linears :
        edge_attached_quarry[e] # None =>
            /\ OnShortestPath(e, edge_attached_quarry[e])
            /\ SetMin({distances_to_quarries[e.first][edge_attached_quarry[e]],
                       distances_to_quarries[e.last][edge_attached_quarry[e]]})
                   + geom_length[e]
               = SetMax({distances_to_quarries[e.first][edge_attached_quarry[e]],
                         distances_to_quarries[e.last][edge_attached_quarry[e]]})

\* An input edge assigned whole, and the consumed part of a capacity split
\* made from the end of an edge that does not start at the quarry.
C20_Witness ==
    /\ last.kind = "capacity_split"
    /\ last.inverted
    /\ last.du > 0
    /\ edge_attached_quarry[last.near] = last.qu
    /\ \E e \in linears \cap InputSet : edge_attached_quarry[e] # None

\* No quarry has run out so far: every capacity is still positive, and no
\* quarry was asked for a volume it could not give in full.
NoQuarryExhausted ==
    /\ \A q \in quarries : quarries_capacities[q] > 0
    /\ ~(last.kind = "split_refused" /\ last.single)

\* The vertices made by splits.
CreatedVertices == vertices \ InputVertices

\* C21: on a network that was loaded, where every vertex reaches a quarry,
\* and as long as no quarry is exhausted, each input edge is split at most
\* once: only input edges are split and only at the watershed, a call on a
\* part of a split edge assigns it whole to the nearest quarry of its input
\* end, no call raises, and when calculate() returns every input edge is one
\* or two assigned edges.
C21_AtMostOneSplit ==
    (pc # "compute_distances" /\ error # "unreachable" /\ NoQuarryExhausted) =>
        /\ error = "none"
        /\ \A w \in CreatedVertices :
               /\ Neighbours(linears, w) \subseteq InputVertices
               /\ Cardinality(Neighbours(linears, w)) = 2
               /\ \E i \in 1..Len(input_linears) :
                      Neighbours(linears, w) = {input_linears[i].first, input_linears[i].last}
               /\ \A w2 \in CreatedVertices :
                      Neighbours(linears, w2) = Neighbours(linears, w) => w2 = w
        /\ last.kind \in {"none", "watershed", "assigned"}
        /\ last.kind = "watershed" => last.linear \in InputSet
        /\ (last.kind = "assigned" /\ last.linear \notin InputSet) =>
               /\ edge_attached_quarry[last.linear] = last.qu
               /\ last.u \in InputVertices
               /\ last.v \in CreatedVertices
        /\ pc = "done" =>
               /\ \A e \in linears : edge_attached_quarry[e] # None
               /\ \A i \in 1..Len(input_linears) :
                      Len(PartsBetween(input_linears[i].first, input_linears[i].last)) \in {1, 2}

\* calculate() has returned with no quarry exhausted, one input edge in two
\* parts assigned to two quarries and another input edge assigned whole.
C21_Witness ==
    /\ pc = "done"
    /\ NoQuarryExhausted
    /\ \E w \in CreatedVertices : \E x, y \in InputVertices :
           /\ Adjacent(linears, w, x)
           /\ Adjacent(linears, w, y)
           /\ edge_attached_quarry[LinearBetween(linears, w, x)] # None
           /\ edge_attached_quarry[LinearBetween(linears, w, y)] # None
           /\ edge_attached_quarry[LinearBetween(linears, w, x)] #
                  edge_attached_quarry[LinearBetween(linears, w, y)]
    /\ \E e \in linears \cap InputSet : edge_attached_quarry[e] # None

====
